---- MODULE Spec2Model ----
(***************************************************************************)
(* fix_all_data.py: fix_case, the normalizer of one test_data.txt file.    *)
(*                                                                         *)
(* A file is a sequence of records (one decoded JSON object per non-blank  *)
(* line).  A Python string is a sequence of one-character strings, so that *)
(* slicing ([-8:]) and concatenation (f-strings) are computed as the code  *)
(* computes them.  A field that dict.get finds absent (Python None) is the *)
(* empty sequence for string fields and NoInt for integer fields; the      *)
(* empty string itself is not among the inputs.  A line that json.loads    *)
(* cannot decode is the value Malformed.                                   *)
(*                                                                         *)
(* Spec runs fix_case on one file (and again on what it wrote); MainSpec   *)
(* runs main over a list of case files.                                    *)
(***************************************************************************)
EXTENDS Integers, Sequences, FiniteSets, TLC

VARIABLES
    file,            \* the lines on disk (test_file), one record per line
    input,           \* `data`: what this run read from the file
    pc,              \* position in fix_case
    run,             \* number of the current fix_case run on this file
    processes,       \* the process record objects, in input order (line 16)
    non_processes,   \* the other record objects, in input order (line 17)
    root,            \* index in processes of `root` (0: not chosen yet)
    root_guid,       \* line 46
    root_trace_id,   \* line 47
    parent,          \* index in processes of `parent` (0: None)
    grandparent,     \* index in processes of `grandparent` (0: None)
    queue,           \* get_descendants: queue
    visited,         \* get_descendants: visited
    descendants,     \* get_descendants: descendants, as indices in processes
    popped,          \* history of get_descendants: each value queue.pop(0)
                     \* returned, and whether it was expanded (lines 74-81)
    writes,          \* history: how often this run opened the file for writing
    kept,            \* `processes` as rebound at line 131 (indices)
    modified_count,
    removed_count,
    result,          \* what fix_case returned ("raised": it raised instead):
                     \* "none" while it runs
    prev_result,     \* what the previous run on this file returned
    remaining,       \* main: the case files of the iterations still to come
    total_fixed,     \* main: line 172
    main_pc,         \* main: "loop", "summary" (lines 189-191 printed) or
                     \* "aborted" (an exception left main)
    alert_line,      \* fix_trace_structure: line 22
    levels,          \* fix_trace_structure: line 80, guid -> level
    original_trace_id, \* fix_trace_structure: line 74
    nodes,           \* build_tree: its argument, the records parse_test_data kept
    children_map,    \* build_tree: parent guid -> guids of the children, in order
    root_node,       \* build_tree: index in nodes of root_node (0: None)
    tree_lines,      \* generate_chain_diagram: the guids rendered, line by line
    stack,           \* print_tree: the guids its pending calls will be given
    lines            \* fix_test_data_file: `lines`

vars == <<file, input, pc, run, processes, non_processes, root, root_guid,
          root_trace_id, parent, grandparent, queue, visited, descendants,
          popped, writes, kept, modified_count, removed_count, result,
          prev_result, remaining, total_fixed, main_pc, alert_line, levels,
          original_trace_id, nodes, children_map, root_node, tree_lines, stack,
          lines>>

\* the variables of fix_trace_structure, of the chain diagram generator and of
\* fix_test_data_file that fix_case and main do not have
trace_vars == <<alert_line, levels, original_trace_id>>
tree_vars == <<nodes, children_map, root_node, tree_lines, stack>>
line_vars == <<lines>>

----------------------------------------------------------------------------
(* Bounds of the model *)

MaxProcs == 2        \* process records of a file, every field free
MaxChain == 4        \* process records of a file of lineage shapes
MaxMixedProcs == 1   \* process records of a file that starts with another record
MaxRuns == 2         \* runs of fix_case on one file
MaxCases == 2        \* case files of one run of main
MaxCaseProcs == 2    \* process records of a case file of main
MaxTraceProcs == 4   \* process records of a lineage file of fix_trace_structure
MaxTraceMixed == 2   \* process and file records of a mixed file of fix_trace_structure
MaxNodes == 3        \* records of a file of generate_chain_diagram
MaxLines == 2        \* lines of a file of fix_test_data_file

----------------------------------------------------------------------------
(* Values *)

None == <<>>
NoInt == 0 - 1

SuffixLen == 8
DefaultPid == 999

PfxParent == <<"t","r","a","c","e","I","d","-","p","a","r","e","n","t","-">>
PfxGrandpa == <<"t","r","a","c","e","I","d","-","g","r","a","n","d","p","a","-">>
PfxTrace == <<"t","r","a","c","e","I","d","-">>

Digit(d) == <<"0","1","2","3","4","5","6","7","8","9">>[d + 1]

RECURSIVE IntToStr(_)
IntToStr(n) ==
    IF n < 10 THEN <<Digit(n)>> ELSE IntToStr(n \div 10) \o <<Digit(n % 10)>>

\* s[-8:]
LastChars(s) ==
    IF Len(s) <= SuffixLen THEN s ELSE SubSeq(s, Len(s) - SuffixLen + 1, Len(s))

\* dict.get(key) of a string field, and its truth value
Truthy(s) == s # None

Severity(p) == IF p.severity = NoInt THEN 0 ELSE p.severity
SortKey(p) == IF p.processId = NoInt THEN 0 ELSE p.processId

\* a line of the file that json.loads (line 13) raises on
Malformed == [undecodable |-> TRUE]

Decodes(line) == line # Malformed

SetMin(S) == CHOOSE x \in S : \A y \in S : x <= y
SetMax(S) == CHOOSE x \in S : \A y \in S : x >= y

----------------------------------------------------------------------------
(* Lines 15-27: classification *)

IsProcess(item) == item.logType = "process"

Processes(data) == SelectSeq(data, IsProcess)

IsNonProcess(item) == ~IsProcess(item)

NonProcesses(data) == SelectSeq(data, IsNonProcess)

----------------------------------------------------------------------------
(* Lines 29-47: the root *)

IsRootCandidate(p) == p.isRoot \/ p.processGuid = p.traceId

\* Mutant of FindRoot: two passes, the isRoot flag first and processGuid ==
\* traceId only when no record is flagged
FindRootFlagFirst(procs) ==
    LET F == {i \in DOMAIN procs : procs[i].isRoot}
        S == {i \in DOMAIN procs : IsRootCandidate(procs[i])}
    IN  IF F # {} THEN SetMin(F) ELSE IF S = {} THEN 0 ELSE SetMin(S)

FindRoot(procs) ==
    LET S == {i \in DOMAIN procs : IsRootCandidate(procs[i])}
    IN  IF S = {} THEN 0 ELSE SetMin(S)

\* max(processes, key=severity): the first record of maximal severity
MaxSeverityIndex(procs) ==
    SetMin({i \in DOMAIN procs :
               \A j \in DOMAIN procs : Severity(procs[j]) <= Severity(procs[i])})

SynthesizeRoot(p) ==
    [p EXCEPT !.isRoot = TRUE,
              !.isAlarm = TRUE,
              !.traceId = IF p.processGuid # None
                          THEN p.processGuid
                          ELSE PfxTrace \o IntToStr(IF p.processId = NoInt
                                                    THEN DefaultPid
                                                    ELSE p.processId)]

----------------------------------------------------------------------------
(* Lines 49-61: the index, the parent and the grandparent *)

GuidMap(procs) ==
    [g \in {procs[i].processGuid : i \in DOMAIN procs} \ {None} |->
        SetMax({i \in DOMAIN procs : procs[i].processGuid = g})]

\* guid_map.get(guid) if guid else None
Lookup(procs, guid) ==
    IF Truthy(guid) /\ guid \in DOMAIN GuidMap(procs) THEN GuidMap(procs)[guid] ELSE 0

ParentOf(procs, i) ==
    IF i = 0 THEN 0 ELSE Lookup(procs, procs[i].parentProcessGuid)

----------------------------------------------------------------------------
(* Lines 64-83: get_descendants, one iteration of its while loop *)

RECURSIVE ChildrenOf(_, _, _, _)
\* the for loop of lines 76-81 from index i on: the indices appended
ChildrenOf(procs, current, seen, i) ==
    IF i > Len(procs) THEN <<>>
    ELSE (IF procs[i].parentProcessGuid = current /\ procs[i].processGuid \notin seen
          THEN <<i>> ELSE <<>>) \o ChildrenOf(procs, current, seen, i + 1)

GuidsOf(procs, idx) == [k \in DOMAIN idx |-> procs[idx[k]].processGuid]

----------------------------------------------------------------------------
(* Lines 92-141: the traceId rewrites and the pruning *)

ParentTrace(p) == PfxParent \o LastChars(p.processGuid)
GrandpaTrace(p) == PfxGrandpa \o LastChars(p.processGuid)

\* [procs, n]: procs with record i's traceId set to t when it differs
SetTrace(st, i, t) ==
    IF i = 0 \/ st.procs[i].traceId = t THEN st
    ELSE [procs |-> [st.procs EXCEPT ![i].traceId = t], n |-> st.n + 1]

RECURSIVE SetDescendants(_, _, _)
SetDescendants(st, descs, t) ==
    IF descs = <<>> THEN st
    ELSE SetDescendants(SetTrace(st, Head(descs), t), Tail(descs), t)

\* Mutant of RewriteProcesses: the root's traceId is set on every process
\* record, the ones outside the chain included
RewriteProcessesAll(procs, par, gpar, descs, t) ==
    [procs |-> [i \in DOMAIN procs |-> [procs[i] EXCEPT !.traceId = t]],
     n |-> Cardinality({i \in DOMAIN procs : procs[i].traceId # t})]

RewriteProcesses(procs, par, gpar, descs, t) ==
    LET s0 == [procs |-> procs, n |-> 0]
        s1 == IF par = 0 THEN s0 ELSE SetTrace(s0, par, ParentTrace(s0.procs[par]))
        s2 == IF gpar = 0 THEN s1 ELSE SetTrace(s1, gpar, GrandpaTrace(s1.procs[gpar]))
    IN  SetDescendants(s2, descs, t)

ValidGuids(procs, rguid, par, gpar, descs) ==
    {rguid}
      \cup (IF par = 0 THEN {} ELSE {procs[par].processGuid})
      \cup (IF gpar = 0 THEN {} ELSE {procs[gpar].processGuid})
      \cup {procs[descs[k]].processGuid : k \in DOMAIN descs}

RECURSIVE KeepIndices(_, _, _)
KeepIndices(procs, valid, i) ==
    IF i > Len(procs) THEN <<>>
    ELSE (IF procs[i].processGuid \in valid THEN <<i>> ELSE <<>>)
           \o KeepIndices(procs, valid, i + 1)

NeedsTrace(item, t) == Truthy(item.traceId) /\ item.traceId # t

RewriteNonProcesses(items, t) ==
    [k \in DOMAIN items |->
        IF NeedsTrace(items[k], t) THEN [items[k] EXCEPT !.traceId = t] ELSE items[k]]

CountNonProcesses(items, t) ==
    Cardinality({k \in DOMAIN items : NeedsTrace(items[k], t)})

----------------------------------------------------------------------------
(* Lines 143-162: the canonical order and the write *)

RECURSIVE StableInsert(_, _, _)
StableInsert(procs, s, i) ==
    IF s = <<>> THEN <<i>>
    ELSE IF SortKey(procs[Head(s)]) <= SortKey(procs[i])
         THEN <<Head(s)>> \o StableInsert(procs, Tail(s), i)
         ELSE <<i>> \o s

\* Mutant of SortByPid: line 150 is missing, the records stay as line 131
\* left them
SortByPidNoSort(procs, s) == s

RECURSIVE SortByPid(_, _)
SortByPid(procs, s) ==
    IF s = <<>> THEN <<>>
    ELSE StableInsert(procs, SortByPid(procs, SubSeq(s, 1, Len(s) - 1)), s[Len(s)])

IsAlert(item) == item.logType = "alert"
IsFile(item) == item.logType = "file"
IsRegistry(item) == item.logType = "registry"

AllData(items, procs, keep) ==
    SelectSeq(items, IsAlert) \o SelectSeq(items, IsFile) \o SelectSeq(items, IsRegistry)
      \o [k \in DOMAIN keep |-> procs[SortByPid(procs, keep)[k]]]

ShouldWrite(m, r) == m > 0 \/ r > 0

----------------------------------------------------------------------------
(* The input files *)

Guid(i) == <<"P","R","O","C","-","0","0","0">> \o IntToStr(i)
StaleTrace == <<"T","1">>

Record(lt, guid, par, trace, flag, sev, pid) ==
    [logType |-> lt, processGuid |-> guid, parentProcessGuid |-> par,
     traceId |-> trace, isRoot |-> flag, isAlarm |-> FALSE,
     severity |-> sev, processId |-> pid]

\* Record i's processGuid: its own, one that record 1 has too, or none.
\* At most one record of a file is irregular in this way.
GuidPatterns(n) ==
    {[i \in 1..n |-> Guid(i)]}
      \cup {[i \in 1..n |-> IF i = k THEN None ELSE Guid(i)] : k \in 1..n}
      \cup {[i \in 1..n |-> IF i = k THEN Guid(1) ELSE Guid(i)] : k \in 2..n}

ParentChoices(n) == {None} \cup {Guid(j) : j \in 1..n}

\* How a record presents itself: an unrelated traceId, its own guid as traceId,
\* or the isRoot flag (with an unrelated traceId)
Marks == {"stale", "self", "flag"}

\* 1: processId ascending in input order, no severity.
\* 2: processId descending and absent on the last record; severity absent on
\*    the first record and 1 on the others.
\* 3: processId 0 on the first record and absent on the others, no severity.
Variants == {1, 2, 3}

PidOf(n, i, v) ==
    IF v = 1 THEN i
    ELSE IF v = 2 THEN (IF i = n THEN NoInt ELSE n - i)
    ELSE (IF i = 1 THEN 0 ELSE NoInt)
SevOf(i, v) == IF v = 1 \/ i = 1 THEN NoInt ELSE 1

ProcessFile(n, guids, pars, marks, v) ==
    [i \in 1..n |->
        Record("process", guids[i], pars[i],
               IF marks[i] = "self" THEN guids[i] ELSE StaleTrace,
               marks[i] = "flag", SevOf(i, v), PidOf(n, i, v))]

\* Record i's processGuid in a file of lineage shapes: all distinct, or the
\* last record shares the guid of the record before it, or has none
ChainGuidPatterns(n) ==
    {[i \in 1..n |-> Guid(i)],
     [i \in 1..n |-> IF i = n /\ n > 1 THEN Guid(n - 1) ELSE Guid(i)],
     [i \in 1..n |-> IF i = n THEN None ELSE Guid(i)]}

\* Files of MaxChain process records, the first or the last of them flagged
\* isRoot, every parentProcessGuid free: the chains, trees and cycles of up to MaxChain records
ChainFile(g, p, r) ==
    ProcessFile(MaxChain, g, p,
                [i \in 1..MaxChain |-> IF i = r THEN "flag" ELSE "stale"], 1)

LogTypes == {"alert", "network", "file", "registry", "unknown"}

\* A record of another logType: without processGuid, with the guid of the
\* first process record, or with a guid that no process record of a file of
\* one process record has
NonProcessRecords ==
    {Record(lt, g, None, t, FALSE, NoInt, NoInt) :
        lt \in LogTypes, g \in {None, Guid(1), Guid(2)}, t \in {None, StaleTrace}}

\* A process record without parent whose traceId is its processGuid, between
\* two records of other logTypes
SandwichFile(a, b) ==
    <<a>> \o ProcessFile(1, <<Guid(1)>>, <<None>>, <<"self">>, 1) \o <<b>>

\* The files a run of the specification starts from
IsInputFile(f) ==
    \/ \E n \in 1..MaxProcs : \E g \in GuidPatterns(n), p \in [1..n -> ParentChoices(n)],
                                   m \in [1..n -> Marks], v \in Variants :
           f = ProcessFile(n, g, p, m, v)
    \/ \E g \in ChainGuidPatterns(MaxChain),
          p \in [1..MaxChain -> ParentChoices(MaxChain)], r \in {1, MaxChain} :
           f = ChainFile(g, p, r)
    \/ \E a \in NonProcessRecords : \E n \in 1..MaxMixedProcs :
         \E g \in GuidPatterns(n), p \in [1..n -> ParentChoices(n)],
            m \in [1..n -> Marks], v \in Variants :
           f = <<a>> \o ProcessFile(n, g, p, m, v)
    \/ \E a \in NonProcessRecords, b \in NonProcessRecords : f = SandwichFile(a, b)
    \/ \E a \in NonProcessRecords : f = <<a>>
    \/ \E a \in NonProcessRecords, b \in NonProcessRecords : f = <<a, b>>

----------------------------------------------------------------------------
(* fix_case as a state machine *)

Init ==
    /\ IsInputFile(file)
    /\ pc = "start" /\ run = 1 /\ prev_result = "none"
    /\ input = <<>> /\ processes = <<>> /\ non_processes = <<>>
    /\ root = 0 /\ root_guid = None /\ root_trace_id = None
    /\ parent = 0 /\ grandparent = 0
    /\ queue = <<>> /\ visited = {} /\ descendants = <<>> /\ popped = <<>>
    /\ writes = 0
    /\ kept = <<>> /\ modified_count = 0 /\ removed_count = 0
    /\ result = "none"
    /\ remaining = <<>> /\ total_fixed = 0 /\ main_pc = "loop"
    /\ alert_line = None /\ levels = <<>> /\ original_trace_id = None
    /\ nodes = <<>> /\ children_map = <<>> /\ root_node = 0
    /\ tree_lines = <<>> /\ stack = <<>>
    /\ lines = <<>>

\* Mutant of Classify: the early return of lines 25-27 is missing, and the
\* run goes on to the rewrite of the non-process records and to the write
ClassifyWithoutEarlyReturn ==
    /\ UNCHANGED <<trace_vars, tree_vars, line_vars>>
    /\ pc = "start"
    /\ IF \E k \in DOMAIN file : ~Decodes(file[k])
       THEN /\ pc' = "done" /\ result' = "raised"
            /\ UNCHANGED <<input, processes, non_processes>>
       ELSE /\ input' = file
            /\ processes' = Processes(file)
            /\ non_processes' = NonProcesses(file)
            /\ pc' = IF Processes(file) = <<>> THEN "bfs" ELSE "root"
            /\ result' = result
    /\ UNCHANGED <<file, run, root, root_guid, root_trace_id, parent, grandparent,
                   queue, visited, descendants, popped, writes, kept,
                   modified_count, removed_count, prev_result, remaining,
                   total_fixed, main_pc>>

\* Lines 12-27: read and decode (json.loads raises on a malformed line, and
\* nothing in fix_case catches it), classify, and return False when there is
\* no process
Classify ==
    /\ UNCHANGED <<trace_vars, tree_vars, line_vars>>
    /\ pc = "start"
    /\ IF \E k \in DOMAIN file : ~Decodes(file[k])
       THEN /\ pc' = "done" /\ result' = "raised"
            /\ UNCHANGED <<input, processes, non_processes>>
       ELSE /\ input' = file
            /\ processes' = Processes(file)
            /\ non_processes' = NonProcesses(file)
            /\ IF Processes(file) = <<>>
               THEN pc' = "done" /\ result' = "false"
               ELSE pc' = "root" /\ result' = result
    /\ UNCHANGED <<file, run, root, root_guid, root_trace_id, parent, grandparent,
                   queue, visited, descendants, popped, writes, kept,
                   modified_count, removed_count, prev_result,
                   remaining, total_fixed, main_pc>>

\* Lines 29-68: the root, the index, parent and grandparent, and the first
\* queue of get_descendants
SelectRoot ==
    /\ UNCHANGED <<trace_vars, tree_vars, line_vars>>
    /\ pc = "root"
    /\ LET found == FindRoot(processes)
           r == IF found # 0 THEN found ELSE MaxSeverityIndex(processes)
           procs == IF found # 0 THEN processes
                    ELSE [processes EXCEPT ![r] = SynthesizeRoot(processes[r])]
           par == ParentOf(procs, r)
       IN  /\ root' = r
           /\ processes' = procs
           /\ root_guid' = procs[r].processGuid
           /\ root_trace_id' = procs[r].traceId
           /\ parent' = par
           /\ grandparent' = ParentOf(procs, par)
           /\ queue' = <<procs[r].processGuid>>
    /\ visited' = {}
    /\ descendants' = <<>>
    /\ pc' = "bfs"
    /\ UNCHANGED <<file, input, run, non_processes, popped, writes, kept,
                   modified_count, removed_count, result, prev_result,
                   remaining, total_fixed, main_pc>>

\* Mutant of BfsStep: the test of lines 72-73 (`if current in visited:
\* continue`) is missing, so a value dequeued again is expanded again
BfsStepAlwaysExpand ==
    /\ UNCHANGED <<trace_vars, tree_vars, line_vars>>
    /\ pc = "bfs"
    /\ queue # <<>>
    /\ LET current == Head(queue)
           seen == visited \cup {current}
           new == ChildrenOf(processes, current, seen, 1)
       IN  /\ popped' = Append(popped, [guid |-> current, expanded |-> TRUE])
           /\ visited' = seen
           /\ descendants' = descendants \o new
           /\ queue' = Tail(queue) \o GuidsOf(processes, new)
    /\ UNCHANGED <<file, input, pc, run, processes, non_processes, root, root_guid,
                   root_trace_id, parent, grandparent, writes, kept,
                   modified_count, removed_count, result, prev_result,
                   remaining, total_fixed, main_pc>>

\* Lines 70-81: one iteration of `while queue`
BfsStep ==
    /\ UNCHANGED <<trace_vars, tree_vars, line_vars>>
    /\ pc = "bfs"
    /\ queue # <<>>
    /\ LET current == Head(queue)
       IN  /\ popped' = Append(popped, [guid |-> current,
                                         expanded |-> current \notin visited])
           /\ IF current \in visited
              THEN /\ queue' = Tail(queue)
                   /\ UNCHANGED <<visited, descendants>>
              ELSE LET seen == visited \cup {current}
                       new == ChildrenOf(processes, current, seen, 1)
                   IN  /\ visited' = seen
                       /\ descendants' = descendants \o new
                       /\ queue' = Tail(queue) \o GuidsOf(processes, new)
    /\ UNCHANGED <<file, input, pc, run, processes, non_processes, root, root_guid,
                   root_trace_id, parent, grandparent, writes, kept,
                   modified_count, removed_count, result, prev_result,
                   remaining, total_fixed, main_pc>>

\* Lines 83-141: the queue is empty; rewrite the traceIds and prune
Normalize ==
    /\ UNCHANGED <<trace_vars, tree_vars, line_vars>>
    /\ pc = "bfs"
    /\ queue = <<>>
    /\ LET st == RewriteProcesses(processes, parent, grandparent, descendants,
                                  root_trace_id)
           valid == ValidGuids(st.procs, root_guid, parent, grandparent, descendants)
           keep == KeepIndices(st.procs, valid, 1)
       IN  /\ processes' = st.procs
           /\ kept' = keep
           /\ removed_count' = Len(processes) - Len(keep)
           /\ non_processes' = RewriteNonProcesses(non_processes, root_trace_id)
           /\ modified_count' = st.n + CountNonProcesses(non_processes, root_trace_id)
    /\ pc' = "write"
    /\ UNCHANGED <<file, input, run, root, root_guid, root_trace_id, parent,
                   grandparent, queue, visited, descendants, popped, writes,
                   result, prev_result, remaining, total_fixed, main_pc>>

\* Lines 143-162: write the file back when something changed
WriteBack ==
    /\ UNCHANGED <<trace_vars, tree_vars, line_vars>>
    /\ pc = "write"
    /\ IF ShouldWrite(modified_count, removed_count)
       THEN /\ file' = AllData(non_processes, processes, kept)
            /\ writes' = writes + 1
            /\ result' = "true"
       ELSE /\ file' = file
            /\ writes' = writes
            /\ result' = "false"
    /\ pc' = "done"
    /\ UNCHANGED <<input, run, processes, non_processes, root, root_guid,
                   root_trace_id, parent, grandparent, queue, visited, descendants,
                   popped, kept, modified_count, removed_count, prev_result,
                   remaining, total_fixed, main_pc>>

\* fix_case is called again on the file as the previous run left it
Rerun ==
    /\ UNCHANGED <<trace_vars, tree_vars, line_vars>>
    /\ pc = "done"
    /\ run < MaxRuns
    /\ run' = run + 1
    /\ prev_result' = result
    /\ pc' = "start"
    /\ input' = <<>> /\ processes' = <<>> /\ non_processes' = <<>>
    /\ root' = 0 /\ root_guid' = None /\ root_trace_id' = None
    /\ parent' = 0 /\ grandparent' = 0
    /\ queue' = <<>> /\ visited' = {} /\ descendants' = <<>> /\ popped' = <<>>
    /\ writes' = 0
    /\ kept' = <<>> /\ modified_count' = 0 /\ removed_count' = 0
    /\ result' = "none"
    /\ UNCHANGED <<file, remaining, total_fixed, main_pc>>

Next == Classify \/ SelectRoot \/ BfsStep \/ Normalize \/ WriteBack \/ Rerun

Spec == Init /\ [][Next]_vars

----------------------------------------------------------------------------
(* main (lines 164-191) over a list of case files *)

\* A case of main's iteration: whether its test_data.txt exists (line 182),
\* and its lines
Missing == [exists |-> FALSE, lines |-> <<>>]
CaseFile(f) == [exists |-> TRUE, lines |-> f]

\* f with a malformed line after its first k lines
WithMalformed(f, k) == SubSeq(f, 1, k) \o <<Malformed>> \o SubSeq(f, k + 1, Len(f))

CaseMarks == {"stale", "flag"}

\* The lines of the first case file: process records with distinct guids,
\* with or without one malformed line among them
IsCaseLines(f) ==
    \E n \in 1..MaxCaseProcs :
      \E p \in [1..n -> ParentChoices(n)], m \in [1..n -> CaseMarks] :
        \/ f = ProcessFile(n, [i \in 1..n |-> Guid(i)], p, m, 1)
        \/ \E k \in 0..n :
              f = WithMalformed(ProcessFile(n, [i \in 1..n |-> Guid(i)], p, m, 1), k)

\* A root and its child, whose traceId fix_case has to rewrite
RootAndChild ==
    ProcessFile(2, <<Guid(1), Guid(2)>>, <<None, Guid(1)>>, <<"self", "stale">>, 1)

\* The later cases: no file, a file of one malformed line, a file that
\* fix_case rewrites
LaterCases == {Missing, CaseFile(<<Malformed>>), CaseFile(RootAndChild)}

IsCaseList(c) ==
    \E rest \in [1..(MaxCases - 1) -> LaterCases] :
        \/ c = <<Missing>> \o rest
        \/ \E n \in 1..MaxCaseProcs :
             \E p \in [1..n -> ParentChoices(n)], m \in [1..n -> CaseMarks] :
               \/ c = <<CaseFile(ProcessFile(n, [i \in 1..n |-> Guid(i)], p, m, 1))>>
                         \o rest
               \/ \E k \in 0..n :
                     c = <<CaseFile(WithMalformed(
                              ProcessFile(n, [i \in 1..n |-> Guid(i)], p, m, 1), k))>>
                           \o rest

InitMain ==
    /\ IsCaseList(remaining)
    /\ file = <<>>
    /\ pc = "next" /\ run = 1 /\ prev_result = "none"
    /\ input = <<>> /\ processes = <<>> /\ non_processes = <<>>
    /\ root = 0 /\ root_guid = None /\ root_trace_id = None
    /\ parent = 0 /\ grandparent = 0
    /\ queue = <<>> /\ visited = {} /\ descendants = <<>> /\ popped = <<>>
    /\ writes = 0
    /\ kept = <<>> /\ modified_count = 0 /\ removed_count = 0
    /\ result = "none"
    /\ total_fixed = 0 /\ main_pc = "loop"
    /\ alert_line = None /\ levels = <<>> /\ original_trace_id = None
    /\ nodes = <<>> /\ children_map = <<>> /\ root_node = 0
    /\ tree_lines = <<>> /\ stack = <<>>
    /\ lines = <<>>

\* Lines 179-186: the next iteration: `continue` when the file does not
\* exist, else call fix_case on it
NextCase ==
    /\ UNCHANGED <<trace_vars, tree_vars, line_vars>>
    /\ pc = "next"
    /\ remaining # <<>>
    /\ remaining' = Tail(remaining)
    /\ IF Head(remaining).exists
       THEN /\ file' = Head(remaining).lines
            /\ pc' = "start"
       ELSE /\ file' = file
            /\ pc' = "next"
    /\ input' = <<>> /\ processes' = <<>> /\ non_processes' = <<>>
    /\ root' = 0 /\ root_guid' = None /\ root_trace_id' = None
    /\ parent' = 0 /\ grandparent' = 0
    /\ queue' = <<>> /\ visited' = {} /\ descendants' = <<>> /\ popped' = <<>>
    /\ writes' = 0
    /\ kept' = <<>> /\ modified_count' = 0 /\ removed_count' = 0
    /\ result' = "none"
    /\ UNCHANGED <<run, prev_result, total_fixed, main_pc>>

\* Lines 186-187: fix_case returned to main
CaseReturn ==
    /\ UNCHANGED <<trace_vars, tree_vars, line_vars>>
    /\ pc = "done"
    /\ result \in {"true", "false"}
    /\ total_fixed' = IF result = "true" THEN total_fixed + 1 ELSE total_fixed
    /\ pc' = "next"
    /\ UNCHANGED <<file, input, run, processes, non_processes, root, root_guid,
                   root_trace_id, parent, grandparent, queue, visited, descendants,
                   popped, writes, kept, modified_count, removed_count, result,
                   prev_result, remaining, main_pc>>

\* Line 186: fix_case raised; main has no try/except, the exception leaves it
CaseRaise ==
    /\ UNCHANGED <<trace_vars, tree_vars, line_vars>>
    /\ pc = "done"
    /\ result = "raised"
    /\ main_pc' = "aborted"
    /\ pc' = "exit"
    /\ UNCHANGED <<file, input, run, processes, non_processes, root, root_guid,
                   root_trace_id, parent, grandparent, queue, visited, descendants,
                   popped, writes, kept, modified_count, removed_count, result,
                   prev_result, remaining, total_fixed>>

\* Lines 189-191: the loops are over, the summary is printed
Summary ==
    /\ UNCHANGED <<trace_vars, tree_vars, line_vars>>
    /\ pc = "next"
    /\ remaining = <<>>
    /\ main_pc' = "summary"
    /\ pc' = "exit"
    /\ UNCHANGED <<file, input, run, processes, non_processes, root, root_guid,
                   root_trace_id, parent, grandparent, queue, visited, descendants,
                   popped, writes, kept, modified_count, removed_count, result,
                   prev_result, remaining, total_fixed>>

NextMain ==
    \/ NextCase \/ Classify \/ SelectRoot \/ BfsStep \/ Normalize \/ WriteBack
    \/ CaseReturn \/ CaseRaise \/ Summary

MainSpec == InitMain /\ [][NextMain]_vars

----------------------------------------------------------------------------
(* fix_trace_structure.py: fix_trace_structure.  It runs on the variables   *)
(* file, input, pc, processes, root, root_guid, modified_count, writes and  *)
(* result, which are locals of the same names (or roles) as in fix_case,    *)
(* and on trace_vars.                                                       *)

PrefixLen == 8

\* s[:8]
FirstChars(s) == IF Len(s) <= PrefixLen THEN s ELSE SubSeq(s, 1, PrefixLen)

RECURSIVE SplitFirst(_)
\* s.split('-')[0]
SplitFirst(s) ==
    IF s = <<>> \/ Head(s) = "-" THEN <<>> ELSE <<Head(s)>> \o SplitFirst(Tail(s))

MidParent == <<"-","p","a","r","e","n","t","-">>

\* str.lower() on the letters of the process names of the inputs
LowerChar(c) ==
    CASE c = "C" -> "c" [] c = "M" -> "m" [] c = "D" -> "d" [] OTHER -> c

Lower(s) == [k \in DOMAIN s |-> LowerChar(s[k])]

\* `sub in s`
Contains(s, sub) ==
    \E k \in 0..(Len(s) - Len(sub)) : SubSeq(s, k + 1, k + Len(sub)) = sub

SuspiciousNames ==
    {<<"p","h","p","-","c","g","i">>, <<"c","m","d">>,
     <<"m","s","c","p","u","c","n","6","4">>, <<"w","h","o","a","m","i">>}

\* line 66
IsSuspicious(name) == \E sub \in SuspiciousNames : Contains(Lower(name), sub)

\* lines 30-36: the records of logType process or file
IsTraced(line) == Decodes(line) /\ line.logType \in {"process", "file"}

IsAlertLine(line) == Decodes(line) /\ line.logType = "alert"

\* lines 33-34: the last alert record, as a sequence of at most one record
LastAlert(data) ==
    LET a == SelectSeq(data, IsAlertLine)
    IN  IF a = <<>> THEN <<>> ELSE <<a[Len(a)]>>

\* lines 52-71: the index of root_process in processes
FindTraceRoot(procs) ==
    LET map == GuidMap(procs)
        V == {i \in DOMAIN procs :
                 /\ procs[i].logType = "file"
                 /\ Truthy(procs[i].virusName)
                 /\ procs[i].processGuid \in DOMAIN map}
        S == {i \in DOMAIN procs :
                 procs[i].logType = "process" /\ IsSuspicious(procs[i].processName)}
    IN  IF V # {} THEN map[procs[SetMin(V)].processGuid]
        ELSE IF S # {} THEN SetMin(S)
        ELSE 1

RECURSIVE AssignLevels(_, _, _, _)
\* lines 82-93: assign_levels, on the levels assigned so far
AssignLevels(procs, lv, guid, level) ==
    LET map == GuidMap(procs)
    IN  IF guid \in DOMAIN lv \/ guid \notin DOMAIN map THEN lv
        ELSE LET parent_guid == procs[map[guid]].parentProcessGuid
                 lv2 == lv @@ (guid :> level)
             IN  IF Truthy(parent_guid) /\ parent_guid \in DOMAIN map
                 THEN AssignLevels(procs, lv2, parent_guid, level + 1)
                 ELSE lv2

RECURSIVE AssignChildrenFrom(_, _, _, _)
\* lines 98-108: assign_children_level, its for loop from record i on
AssignChildrenFrom(procs, lv, guid, i) ==
    IF guid \notin DOMAIN GuidMap(procs) \/ i > Len(procs) THEN lv
    ELSE LET child_guid == procs[i].processGuid
         IN  IF /\ procs[i].parentProcessGuid = guid
                /\ Truthy(child_guid)
                /\ child_guid \notin DOMAIN lv
             THEN AssignChildrenFrom(procs,
                      AssignChildrenFrom(procs, lv @@ (child_guid :> 0), child_guid, 1),
                      guid, i + 1)
             ELSE AssignChildrenFrom(procs, lv, guid, i + 1)

\* levels.get(guid, 0)
LevelOf(lv, guid) == IF guid \in DOMAIN lv THEN lv[guid] ELSE 0

\* line 147
AncestorTrace(orig, guid) == SplitFirst(orig) \o MidParent \o FirstChars(guid)

\* lines 116-128: the root takes its traceId as processGuid, and the records
\* whose parentProcessGuid is the old root guid follow
RenameRoot(procs, r, rguid, orig) ==
    [i \in DOMAIN procs |->
        LET p == IF i = r THEN [procs[i] EXCEPT !.processGuid = orig, !.traceId = orig]
                 ELSE procs[i]
        IN  IF rguid # orig /\ p.parentProcessGuid = rguid
            THEN [p EXCEPT !.parentProcessGuid = orig]
            ELSE p]

\* lines 138-150: the traceId a record with a guid is to carry
TargetTrace(lv, p, orig) ==
    IF LevelOf(lv, p.processGuid) <= 2 THEN orig
    ELSE AncestorTrace(orig, p.processGuid)

\* line 147 raises AttributeError: original_trace_id is None and some record
\* with a guid is at level 3 or more
SplitRaises(procs, lv, orig) ==
    /\ orig = None
    /\ \E i \in DOMAIN procs :
          Truthy(procs[i].processGuid) /\ LevelOf(lv, procs[i].processGuid) > 2

\* lines 133-150
Retrace(procs, lv, orig) ==
    [i \in DOMAIN procs |->
        IF Truthy(procs[i].processGuid)
        THEN [procs[i] EXCEPT !.traceId = TargetTrace(lv, procs[i], orig)]
        ELSE procs[i]]

\* lines 170-173: the record written for a line whose parsed guid is `guid`
\* (0: none)
MatchFor(procs, guid, rguid, orig) ==
    LET M == {i \in DOMAIN procs :
                 \/ procs[i].processGuid = guid
                 \/ (guid = rguid /\ procs[i].processGuid = orig)}
    IN  IF M = {} THEN 0 ELSE SetMin(M)

RECURSIVE NewLines(_, _, _, _)
\* lines 160-175
NewLines(data, procs, rguid, orig) ==
    IF data = <<>> THEN <<>>
    ELSE LET m == IF IsTraced(Head(data))
                  THEN MatchFor(procs, Head(data).processGuid, rguid, orig)
                  ELSE 0
         IN  (IF m = 0 THEN <<>> ELSE <<procs[m]>>)
               \o NewLines(Tail(data), procs, rguid, orig)

\* lines 17-42: read, parse, and return when there is no process or file record
TSParse ==
    /\ pc = "ts_start"
    /\ input' = file
    /\ processes' = SelectSeq(file, IsTraced)
    /\ alert_line' = LastAlert(file)
    /\ IF SelectSeq(file, IsTraced) = <<>>
       THEN pc' = "ts_done" /\ result' = "returned"
       ELSE pc' = "ts_root" /\ result' = result
    /\ UNCHANGED <<file, run, non_processes, root, root_guid, root_trace_id, parent,
                   grandparent, queue, visited, descendants, popped, writes, kept,
                   modified_count, removed_count, prev_result, remaining,
                   total_fixed, main_pc, levels, original_trace_id, tree_vars,
                   line_vars>>

\* lines 44-77: the index and the root
TSRoot ==
    /\ pc = "ts_root"
    /\ root' = FindTraceRoot(processes)
    /\ root_guid' = processes[FindTraceRoot(processes)].processGuid
    /\ original_trace_id' = processes[FindTraceRoot(processes)].traceId
    /\ pc' = "ts_levels"
    /\ UNCHANGED <<file, input, run, processes, non_processes, root_trace_id, parent,
                   grandparent, queue, visited, descendants, popped, writes, kept,
                   modified_count, removed_count, result, prev_result, remaining,
                   total_fixed, main_pc, alert_line, levels, tree_vars, line_vars>>

\* lines 79-110: the levels of the ancestors, then level 0 for the descendants
TSLevels ==
    /\ pc = "ts_levels"
    /\ levels' = AssignChildrenFrom(processes,
                                    AssignLevels(processes, <<>>, root_guid, 0),
                                    root_guid, 1)
    /\ pc' = "ts_modify"
    /\ UNCHANGED <<file, input, run, processes, non_processes, root, root_guid,
                   root_trace_id, parent, grandparent, queue, visited, descendants,
                   popped, writes, kept, modified_count, removed_count, result,
                   prev_result, remaining, total_fixed, main_pc, alert_line,
                   original_trace_id, tree_vars, line_vars>>

\* Mutant of TSModify: the file is opened for writing before the records are
\* retraced, so a failure at line 147 leaves a truncated file behind
TSModifyOpensFirst ==
    /\ pc = "ts_modify"
    /\ LET renamed == RenameRoot(processes, root, root_guid, original_trace_id)
       IN  IF SplitRaises(renamed, levels, original_trace_id)
           THEN /\ pc' = "ts_done" /\ result' = "raised"
                /\ file' = alert_line
                /\ UNCHANGED <<processes, modified_count>>
           ELSE /\ processes' = Retrace(renamed, levels, original_trace_id)
                /\ modified_count' =
                      1 + Cardinality({i \in DOMAIN renamed :
                                /\ Truthy(renamed[i].processGuid)
                                /\ renamed[i].traceId
                                     # TargetTrace(levels, renamed[i], original_trace_id)})
                /\ pc' = "ts_write" /\ result' = result
                /\ file' = file
    /\ UNCHANGED <<input, run, non_processes, root, root_guid, root_trace_id,
                   parent, grandparent, queue, visited, descendants, popped, writes,
                   kept, removed_count, prev_result, remaining, total_fixed, main_pc,
                   trace_vars, tree_vars, line_vars>>

\* lines 112-150: rename the root, retrace the records; line 147 can raise
TSModify ==
    /\ pc = "ts_modify"
    /\ LET renamed == RenameRoot(processes, root, root_guid, original_trace_id)
       IN  IF SplitRaises(renamed, levels, original_trace_id)
           THEN /\ pc' = "ts_done" /\ result' = "raised"
                /\ UNCHANGED <<processes, modified_count>>
           ELSE /\ processes' = Retrace(renamed, levels, original_trace_id)
                /\ modified_count' =
                      1 + Cardinality({i \in DOMAIN renamed :
                                /\ Truthy(renamed[i].processGuid)
                                /\ renamed[i].traceId
                                     # TargetTrace(levels, renamed[i], original_trace_id)})
                /\ pc' = "ts_write" /\ result' = result
    /\ UNCHANGED <<file, input, run, non_processes, root, root_guid, root_trace_id,
                   parent, grandparent, queue, visited, descendants, popped, writes,
                   kept, removed_count, prev_result, remaining, total_fixed, main_pc,
                   trace_vars, tree_vars, line_vars>>

\* lines 152-180: compute new_lines, then write them
TSWrite ==
    /\ pc = "ts_write"
    /\ file' = alert_line \o NewLines(input, processes, root_guid, original_trace_id)
    /\ writes' = writes + 1
    /\ result' = "returned"
    /\ pc' = "ts_done"
    /\ UNCHANGED <<input, run, processes, non_processes, root, root_guid,
                   root_trace_id, parent, grandparent, queue, visited, descendants,
                   popped, kept, modified_count, removed_count, prev_result,
                   remaining, total_fixed, main_pc, trace_vars, tree_vars, line_vars>>

NextTrace == TSParse \/ TSRoot \/ TSLevels \/ TSModify \/ TSWrite

\* The files fix_trace_structure is run on
TraceRecord(lt, guid, par, trace, virus, name) ==
    [logType |-> lt, processGuid |-> guid, parentProcessGuid |-> par,
     traceId |-> trace, virusName |-> virus, processName |-> name]

OtherTrace == <<"T","-","2">>
PlainName == <<"s","v","c">>
CmdName == <<"C","M","D",".","e","x","e">>
VirusName == <<"v">>

\* MaxTraceProcs process records with distinct guids, every
\* parentProcessGuid free; record sel (if any) is named CMD.exe; record
\* own carries the traceId rt, the others another one
LineageFile(pars, sel, own, rt) ==
    [i \in 1..MaxTraceProcs |->
        TraceRecord("process", Guid(i), pars[i],
                    IF i = own THEN rt ELSE OtherTrace,
                    None, IF i = sel THEN CmdName ELSE PlainName)]

\* Up to MaxTraceMixed process records, one of them possibly without guid
\* or with the guid of the first; record fi (if any) is a file record, with
\* or without virusName
MixedRecords(n, fi, virus, guids, pars, sel) ==
    [i \in 1..n |->
        TraceRecord(IF i = fi THEN "file" ELSE "process",
                    guids[i], pars[i],
                    IF i = 1 THEN StaleTrace ELSE OtherTrace,
                    IF i = fi /\ virus THEN VirusName ELSE None,
                    IF i = sel THEN CmdName ELSE PlainName)]

AlertRecord(k) == TraceRecord("alert", None, None, StaleTrace, None, IntToStr(k))
NetworkRecord == TraceRecord("network", Guid(1), None, StaleTrace, None, PlainName)

\* The lines around the process and file records of a file
Extras ==
    {<<>>, <<AlertRecord(1)>>, <<AlertRecord(1), AlertRecord(2)>>,
     <<Malformed>>, <<NetworkRecord>>}

IsTraceFile(f) ==
    \/ \E pars \in [1..MaxTraceProcs -> ParentChoices(MaxTraceProcs)],
          sel \in {0, MaxTraceProcs}, rt \in {StaleTrace, None, Guid(1), Guid(2)} :
           f = LineageFile(pars, sel, IF sel = 0 THEN 1 ELSE sel, rt)
    \/ \E n \in 0..MaxTraceMixed : \E fi \in 0..n, virus \in BOOLEAN,
          guids \in GuidPatterns(n), pars \in [1..n -> ParentChoices(n)],
          sel \in {0, n}, x \in Extras, front \in BOOLEAN :
           f = (IF front THEN x ELSE <<>>)
                 \o MixedRecords(n, fi, virus, guids, pars, sel)
                 \o (IF front THEN <<>> ELSE x)

InitTrace ==
    /\ IsTraceFile(file)
    /\ pc = "ts_start" /\ run = 1 /\ prev_result = "none"
    /\ input = <<>> /\ processes = <<>> /\ non_processes = <<>>
    /\ root = 0 /\ root_guid = None /\ root_trace_id = None
    /\ parent = 0 /\ grandparent = 0
    /\ queue = <<>> /\ visited = {} /\ descendants = <<>> /\ popped = <<>>
    /\ writes = 0
    /\ kept = <<>> /\ modified_count = 0 /\ removed_count = 0
    /\ result = "none"
    /\ remaining = <<>> /\ total_fixed = 0 /\ main_pc = "loop"
    /\ alert_line = None /\ levels = <<>> /\ original_trace_id = None
    /\ nodes = <<>> /\ children_map = <<>> /\ root_node = 0
    /\ tree_lines = <<>> /\ stack = <<>>
    /\ lines = <<>>

TraceSpec == InitTrace /\ [][NextTrace]_vars

----------------------------------------------------------------------------
(* generate_command_chain_diagrams.py: parse_test_data, build_tree,         *)
(* print_tree and generate_chain_diagram.  They run on file, pc, visited,   *)
(* writes and result, and on tree_vars.  A node is named by its index in    *)
(* nodes; 0 is None.                                                        *)

\* lines 23-32 of parse_test_data: the lines that become nodes
IsNode(line) == Decodes(line) /\ line.logType \notin {"alert", "network"}

\* children_map.get(guid, []) and `guid in children_map`
ChildrenGet(cm, guid) == IF guid \in DOMAIN cm THEN cm[guid] ELSE <<>>

\* line 46: children_map[parent_guid].append(child_guid)
AppendChild(cm, parent_guid, child_guid) ==
    IF parent_guid \in DOMAIN cm
    THEN [cm EXCEPT ![parent_guid] = Append(@, child_guid)]
    ELSE cm @@ (parent_guid :> <<child_guid>>)

RECURSIVE BuildChildrenFrom(_, _, _)
\* lines 42-46 of generate_command_chain_diagrams.py (and lines 46-50 of
\* generate_case5_chain.py), the for loop from node i on
BuildChildrenFrom(ns, i, cm) ==
    IF i > Len(ns) THEN cm
    ELSE LET parent_guid == ns[i].parentProcessGuid
         IN  IF Truthy(parent_guid) /\ parent_guid \in DOMAIN GuidMap(ns)
             THEN BuildChildrenFrom(ns, i + 1,
                                    AppendChild(cm, parent_guid, ns[i].processGuid))
             ELSE BuildChildrenFrom(ns, i + 1, cm)

BuildChildren(ns) == BuildChildrenFrom(ns, 1, <<>>)

RECURSIVE BuildChildrenMiningFrom(_, _, _)
\* lines 71-78 of generate_mining_chain_diagrams.py: the child's guid has to
\* be truthy as well
BuildChildrenMiningFrom(ns, i, cm) ==
    IF i > Len(ns) THEN cm
    ELSE LET parent_guid == ns[i].parentProcessGuid
             child_guid == ns[i].processGuid
         IN  IF /\ Truthy(parent_guid) /\ Truthy(child_guid)
                /\ parent_guid \in DOMAIN GuidMap(ns)
             THEN BuildChildrenMiningFrom(ns, i + 1,
                                          AppendChild(cm, parent_guid, child_guid))
             ELSE BuildChildrenMiningFrom(ns, i + 1, cm)

BuildChildrenMining(ns) == BuildChildrenMiningFrom(ns, 1, <<>>)

\* lines 49-53: top_level_nodes, as the set of their indices
TopLevelNodes(ns) ==
    {i \in DOMAIN ns :
        \/ ~Truthy(ns[i].parentProcessGuid)
        \/ ns[i].parentProcessGuid \notin DOMAIN GuidMap(ns)}

\* the first node of a for loop over top_level_nodes that satisfies the
\* test, 0 if none does
FirstOf(S) == IF S = {} THEN 0 ELSE SetMin(S)

\* Mutant of SelectTreeRoot: the isRoot flag is looked at before
\* "traceId == processGuid and has children"
SelectTreeRootFlagFirst(ns) ==
    LET T == TopLevelNodes(ns)
        cm == BuildChildren(ns)
        s1 == FirstOf({i \in T : ns[i].isRoot})
        s2 == FirstOf({i \in T : ns[i].processGuid = ns[i].traceId
                                    /\ ns[i].processGuid \in DOMAIN cm})
        s3 == FirstOf({i \in T : ns[i].processGuid = ns[i].traceId})
        s4 == FirstOf({i \in T : ns[i].processGuid \in DOMAIN cm})
    IN  IF s1 # 0 THEN s1 ELSE IF s2 # 0 THEN s2 ELSE IF s3 # 0 THEN s3
        ELSE IF s4 # 0 THEN s4 ELSE FirstOf(T)

\* lines 60-92: root_node
SelectTreeRoot(ns) ==
    LET T == TopLevelNodes(ns)
        cm == BuildChildren(ns)
        s1 == FirstOf({i \in T : ns[i].processGuid = ns[i].traceId
                                    /\ ns[i].processGuid \in DOMAIN cm})
        s2 == FirstOf({i \in T : ns[i].isRoot})
        s3 == FirstOf({i \in T : ns[i].processGuid = ns[i].traceId})
        s4 == FirstOf({i \in T : ns[i].processGuid \in DOMAIN cm})
    IN  IF s1 # 0 THEN s1 ELSE IF s2 # 0 THEN s2 ELSE IF s3 # 0 THEN s3
        ELSE IF s4 # 0 THEN s4 ELSE FirstOf(T)

\* A pending call print_tree(guid, ..., prefix, is_last, visited): prefix is
\* the is_last of the calls above it (line 133), fresh tells that the call
\* comes from line 188 and gets a new visited set
Call(guid, prefix, is_last, fresh) ==
    [guid |-> guid, prefix |-> prefix, is_last |-> is_last, fresh |-> fresh]

\* lines 134-137 and 186-188: the calls for the children of a node, in order
CallsFor(children, prefix, fresh) ==
    [k \in DOMAIN children |->
        Call(children[k], prefix, k = Len(children), fresh)]

\* line 128 and line 183: a line of the diagram; the connector of line 127
\* is "last" or "tee", the root's line has none
TreeLine(node, prefix, connector) ==
    [node |-> node, prefix |-> prefix, connector |-> connector]

\* lines 162-170: parse; no nodes, no diagram
TreeParse ==
    /\ pc = "tr_start"
    /\ nodes' = SelectSeq(file, IsNode)
    /\ IF SelectSeq(file, IsNode) = <<>>
       THEN pc' = "tr_done" /\ result' = "false"
       ELSE pc' = "tr_build" /\ result' = result
    /\ UNCHANGED <<file, input, run, processes, non_processes, root, root_guid,
                   root_trace_id, parent, grandparent, queue, visited, descendants,
                   popped, writes, kept, modified_count, removed_count,
                   prev_result, remaining, total_fixed, main_pc, trace_vars,
                   children_map, root_node, tree_lines, stack, line_vars>>

\* lines 174-188: build_tree; no root, no diagram; else the root's line and
\* the calls of print_tree for its children
TreeBuild ==
    /\ pc = "tr_build"
    /\ children_map' = BuildChildren(nodes)
    /\ root_node' = SelectTreeRoot(nodes)
    /\ IF SelectTreeRoot(nodes) = 0
       THEN /\ pc' = "tr_done" /\ result' = "false"
            /\ UNCHANGED <<tree_lines, stack>>
       ELSE /\ tree_lines' = <<TreeLine(SelectTreeRoot(nodes), <<>>, "")>>
            /\ stack' = CallsFor(ChildrenGet(BuildChildren(nodes),
                                             nodes[SelectTreeRoot(nodes)].processGuid),
                                 <<>>, TRUE)
            /\ pc' = "tr_print" /\ result' = result
    /\ UNCHANGED <<file, input, run, processes, non_processes, root, root_guid,
                   root_trace_id, parent, grandparent, queue, visited, descendants,
                   popped, writes, kept, modified_count, removed_count,
                   prev_result, remaining, total_fixed, main_pc, trace_vars,
                   nodes, line_vars>>

\* lines 110-139: one call of print_tree, up to its first recursive call
PrintTree ==
    /\ pc = "tr_print"
    /\ stack # <<>>
    /\ LET call == Head(stack)
           seen == IF call.fresh THEN {} ELSE visited
           node_map == GuidMap(nodes)
       IN  IF call.guid \in seen
           THEN /\ visited' = seen
                /\ stack' = Tail(stack)
                /\ UNCHANGED tree_lines
           ELSE /\ visited' = seen \cup {call.guid}
                /\ IF call.guid \notin DOMAIN node_map
                   THEN stack' = Tail(stack) /\ UNCHANGED tree_lines
                   ELSE /\ tree_lines' =
                             Append(tree_lines,
                                    TreeLine(node_map[call.guid], call.prefix,
                                             IF call.is_last THEN "last" ELSE "tee"))
                        /\ stack' =
                             CallsFor(ChildrenGet(children_map, call.guid),
                                      Append(call.prefix, call.is_last), FALSE)
                               \o Tail(stack)
    /\ UNCHANGED <<pc, file, input, run, processes, non_processes, root, root_guid,
                   root_trace_id, parent, grandparent, queue, descendants,
                   popped, writes, kept, modified_count, removed_count, result,
                   prev_result, remaining, total_fixed, main_pc, trace_vars,
                   nodes, children_map, root_node, line_vars>>

\* lines 190-243: the diagram is written
TreeWrite ==
    /\ pc = "tr_print"
    /\ stack = <<>>
    /\ writes' = writes + 1
    /\ result' = "true"
    /\ pc' = "tr_done"
    /\ UNCHANGED <<file, input, run, processes, non_processes, root, root_guid,
                   root_trace_id, parent, grandparent, queue, visited, descendants,
                   popped, kept, modified_count, removed_count, prev_result,
                   remaining, total_fixed, main_pc, trace_vars, tree_vars,
                   line_vars>>

NextTree == TreeParse \/ TreeBuild \/ PrintTree \/ TreeWrite

\* The files generate_chain_diagram is run on: up to MaxNodes records, one
\* of them possibly without guid or with the guid of the first, every
\* parentProcessGuid free, record si (if any) with its guid as traceId,
\* record fj (if any) flagged isRoot
NodeFile(n, guids, pars, si, fj) ==
    [i \in 1..n |->
        Record(IF i = 2 THEN "file" ELSE "process", guids[i], pars[i],
               IF i = si THEN guids[i] ELSE StaleTrace, i = fj, NoInt, i)]

IsTreeFile(f) ==
    \/ \E n \in 1..MaxNodes : \E guids \in GuidPatterns(n),
          pars \in [1..n -> ParentChoices(n)], si \in 0..n, fj \in 0..n :
           f = NodeFile(n, guids, pars, si, fj)
    \/ \E a \in NonProcessRecords \cup {Malformed} :
           \/ f = <<a>>
           \/ \E si \in 0..1 : f = <<a>> \o NodeFile(1, <<Guid(1)>>, <<None>>, si, 0)
    \/ f = <<>>

InitTree ==
    /\ IsTreeFile(file)
    /\ pc = "tr_start" /\ run = 1 /\ prev_result = "none"
    /\ input = <<>> /\ processes = <<>> /\ non_processes = <<>>
    /\ root = 0 /\ root_guid = None /\ root_trace_id = None
    /\ parent = 0 /\ grandparent = 0
    /\ queue = <<>> /\ visited = {} /\ descendants = <<>> /\ popped = <<>>
    /\ writes = 0
    /\ kept = <<>> /\ modified_count = 0 /\ removed_count = 0
    /\ result = "none"
    /\ remaining = <<>> /\ total_fixed = 0 /\ main_pc = "loop"
    /\ alert_line = None /\ levels = <<>> /\ original_trace_id = None
    /\ nodes = <<>> /\ children_map = <<>> /\ root_node = 0
    /\ tree_lines = <<>> /\ stack = <<>>
    /\ lines = <<>>

TreeSpec == InitTree /\ [][NextTree]_vars

----------------------------------------------------------------------------
(* fix_network_attacker_victim.py and fix_duplicate_ips.py:                 *)
(* fix_test_data_file.  The file is a text here: a sequence of tokens, each *)
(* a newline, a blank, a chunk of text that is not JSON, or a JSON value    *)
(* (in the layout of json.dumps or in another one).  The functions run on   *)
(* file, input, pc, modified_count, writes and result, and on lines.        *)

NL == [t |-> "nl"]
SP == [t |-> "sp"]
BAD == [t |-> "bad"]
Json(data, canonical) == [t |-> "json", canonical |-> canonical, data |-> data]

OldIp == "10.50.109.192"
NewIp == "10.50.122.205"
DestIp == "10.0.0.2"

RECURSIVE SplitLines(_)
\* `for line in f`: the lines of a text, each with its newline if it has one
SplitLines(text) ==
    IF text = <<>> THEN <<>>
    ELSE LET N == {k \in DOMAIN text : text[k] = NL}
         IN  IF N = {} THEN <<text>>
             ELSE <<SubSeq(text, 1, SetMin(N))>>
                    \o SplitLines(SubSeq(text, SetMin(N) + 1, Len(text)))

IsSpace(tok) == tok \in {NL, SP}

\* line.strip()
Strip(line) ==
    LET K == {k \in DOMAIN line : ~IsSpace(line[k])}
    IN  IF K = {} THEN <<>> ELSE SubSeq(line, SetMin(K), SetMax(K))

\* json.loads(line) does not raise JSONDecodeError
Loadable(line) == Len(line) = 1 /\ line[1].t = "json"

\* json.loads(line), json.dumps(data, ensure_ascii=False)
Loads(line) == line[1].data
Dumps(data) == <<Json(data, TRUE)>>

\* a JSON object, as opposed to a number, a string or a list
IsDict(data) == "logType" \in DOMAIN data

\* fix_network_attacker_victim.py lines 11-39: fix_network_log
FixNetworkLog(d) ==
    IF d.logType \notin {"alert", "network"} THEN d
    ELSE LET new_attacker == IF d.srcAddress # "" THEN <<d.srcAddress>> ELSE <<>>
             new_victim == IF d.destAddress # "" THEN <<d.destAddress>> ELSE <<>>
         IN  [d EXCEPT !.attacker = IF d.hasAttacker THEN new_attacker ELSE @,
                       !.victim = IF d.hasVictim THEN new_victim ELSE @]

\* fix_duplicate_ips.py lines 12-15 and 24-28: the mapping, on one string
ReplaceIp(str) == IF str = OldIp THEN NewIp ELSE str

\* fix_duplicate_ips.py lines 22-34: replace_ip_in_json
ReplaceIpInJson(d) ==
    IF ~IsDict(d) THEN d
    ELSE [d EXCEPT !.srcAddress = ReplaceIp(@), !.destAddress = ReplaceIp(@),
                   !.attacker = [k \in DOMAIN @ |-> ReplaceIp(@[k])],
                   !.victim = [k \in DOMAIN @ |-> ReplaceIp(@[k])]]

\* the two functions named fix_test_data_file
Fixers == {"network", "ips"}

\* lines 58-60 / 55-60: the record after the fix
Fixed(d, fixer) == IF fixer = "network" THEN FixNetworkLog(d) ELSE ReplaceIpInJson(d)

\* line 59: fix_network_log calls log_data.get, which only a dict has
GetRaises(text, fixer) ==
    /\ fixer = "network"
    /\ \E k \in DOMAIN SplitLines(text) :
          LET line == Strip(SplitLines(text)[k])
          IN  Loadable(line) /\ ~IsDict(Loads(line))

\* Mutant of EntryFor: a blank line gets no entry that tells it from a
\* line of text, the raw line is kept
EntryForKeepsRaw(raw, fixer) ==
    LET line == Strip(raw)
    IN  IF Loadable(line) THEN Dumps(Fixed(Loads(line), fixer))
        ELSE raw

\* lines 53-67 / 49-73: the entry of `lines` for one line of the file
EntryFor(raw, fixer) ==
    LET line == Strip(raw)
    IN  IF line = <<>> THEN <<>>
        ELSE IF Loadable(line) THEN Dumps(Fixed(Loads(line), fixer))
        ELSE line

\* lines 60-62 / 61-62: the line counts as modified
IsModified(raw, fixer) ==
    LET line == Strip(raw)
    IN  Loadable(line) /\ Fixed(Loads(line), fixer) # Loads(line)

RECURSIVE Join(_)
\* '\n'.join(lines)
Join(ls) ==
    IF ls = <<>> THEN <<>>
    ELSE IF Len(ls) = 1 THEN ls[1]
    ELSE ls[1] \o <<NL>> \o Join(Tail(ls))

\* fix_test_data_file of either module, on an existing file
FixTestDataFile(fixer) ==
    /\ pc = "ln_start"
    /\ input' = file
    /\ pc' = "ln_done"
    /\ IF GetRaises(file, fixer)
       THEN /\ result' = "raised"
            /\ UNCHANGED <<file, writes, modified_count, lines>>
       ELSE LET raws == SplitLines(file)
                entries == [k \in DOMAIN raws |-> EntryFor(raws[k], fixer)]
                count == Cardinality({k \in DOMAIN raws : IsModified(raws[k], fixer)})
            IN  /\ lines' = entries
                /\ modified_count' = count
                /\ IF count > 0
                   THEN /\ file' = Join(entries)
                        /\ writes' = writes + 1
                        /\ result' = IF fixer = "ips" THEN "true" ELSE "returned"
                   ELSE /\ UNCHANGED <<file, writes>>
                        /\ result' = IF fixer = "ips" THEN "false" ELSE "returned"
    /\ UNCHANGED <<run, processes, non_processes, root, root_guid, root_trace_id,
                   parent, grandparent, queue, visited, descendants, popped, kept,
                   removed_count, prev_result, remaining, total_fixed, main_pc,
                   trace_vars, tree_vars>>

FixNetworkFile == FixTestDataFile("network")
FixIpsFile == FixTestDataFile("ips")

NextLines == FixNetworkFile \/ FixIpsFile

\* The records of the input lines
NetRecord(lt, src, hasAtt, att, hasVic, vic) ==
    [logType |-> lt, srcAddress |-> src, destAddress |-> DestIp,
     hasAttacker |-> hasAtt, attacker |-> att, hasVictim |-> hasVic, victim |-> vic]

NetRecords ==
    {NetRecord(lt, src, a[1], a[2], v[1], v[2]) :
        lt \in {"alert", "process"}, src \in {"", OldIp},
        a \in {<<FALSE, <<>>>>, <<TRUE, <<>>>>, <<TRUE, <<OldIp>>>>},
        v \in {<<FALSE, <<>>>>, <<TRUE, <<DestIp>>>>, <<TRUE, <<OldIp>>>>}}

Scalar == [number |-> 1]

\* The lines of the input files, without their newline: blank, not JSON
\* (with or without blanks around), a record in the layout of json.dumps,
\* one record in another layout, a number
RawLines ==
    {<<>>, <<SP>>, <<BAD>>, <<SP, BAD, SP>>, <<Json(Scalar, TRUE)>>,
     <<Json(NetRecord("process", "", FALSE, <<>>, FALSE, <<>>), FALSE)>>}
      \cup {<<Json(d, TRUE)>> : d \in NetRecords}

\* Up to MaxLines lines, the last with or without its newline
IsTextFile(f) ==
    \E n \in 0..MaxLines : \E ls \in [1..n -> RawLines], final \in BOOLEAN :
        f = Join(ls) \o (IF final /\ n > 0 THEN <<NL>> ELSE <<>>)

InitLines ==
    /\ IsTextFile(file)
    /\ pc = "ln_start" /\ run = 1 /\ prev_result = "none"
    /\ input = <<>> /\ processes = <<>> /\ non_processes = <<>>
    /\ root = 0 /\ root_guid = None /\ root_trace_id = None
    /\ parent = 0 /\ grandparent = 0
    /\ queue = <<>> /\ visited = {} /\ descendants = <<>> /\ popped = <<>>
    /\ writes = 0
    /\ kept = <<>> /\ modified_count = 0 /\ removed_count = 0
    /\ result = "none"
    /\ remaining = <<>> /\ total_fixed = 0 /\ main_pc = "loop"
    /\ alert_line = None /\ levels = <<>> /\ original_trace_id = None
    /\ nodes = <<>> /\ children_map = <<>> /\ root_node = 0
    /\ tree_lines = <<>> /\ stack = <<>>
    /\ lines = <<>>

LineSpec == InitLines /\ [][NextLines]_vars

----------------------------------------------------------------------------
(* The lineage graph, read off the records: record i is a child of record  *)
(* j when i's parentProcessGuid is j's processGuid                         *)

IsChildOf(procs, i, j) ==
    /\ procs[i].parentProcessGuid # None
    /\ procs[i].parentProcessGuid = procs[j].processGuid

Below(procs, S) == {i \in DOMAIN procs : \E j \in S : IsChildOf(procs, i, j)}
Above(procs, S) == {j \in DOMAIN procs : \E i \in S : IsChildOf(procs, i, j)}

RECURSIVE BelowClosure(_, _)
\* every record reachable downward from S in one or more steps
BelowClosure(procs, S) ==
    LET T == S \cup Below(procs, S)
    IN  IF T = S THEN Below(procs, S) ELSE BelowClosure(procs, T)

RECURSIVE AboveAt(_, _, _)
\* the records d steps above S
AboveAt(procs, S, d) == IF d = 0 THEN S ELSE AboveAt(procs, Above(procs, S), d - 1)

\* the records three or more steps above record r
DeepAncestors(procs, r) ==
    UNION {AboveAt(procs, {r}, d) : d \in 3..(Len(procs) + 3)}

Done == pc = "done"
Wrote == pc = "done" /\ result = "true"
Kept == {kept[k] : k \in DOMAIN kept}
OutputProcesses == Processes(file)
InputProcesses == Processes(input)

----------------------------------------------------------------------------
(* The claims *)

\* C1: in the record set fix_case writes, the record it selected as root has
\* processGuid equal to traceId, whichever rule selected it.
C1_RootGuidIsTraceId ==
    Wrote => /\ \E k \in DOMAIN file : file[k] = processes[root]
             /\ processes[root].processGuid = processes[root].traceId

\* C2: after fix_case every surviving process record that is a descendant of
\* the root (reachable downward through parentProcessGuid edges) has the
\* traceId the root record carries in the output.
C2_DescendantsShareRootTrace ==
    Wrote => \A i \in Kept \ {root} :
                i \in BelowClosure(processes, {root})
                    => processes[i].traceId = processes[root].traceId

\* C3: after fix_case the traceIds of the parent, of the grandparent and of the
\* root are pairwise distinct, whenever parent and/or grandparent exist.
C3_AncestorTracesDistinct ==
    Wrote =>
        /\ parent # 0 => processes[parent].traceId # processes[root].traceId
        /\ grandparent # 0 =>
              /\ processes[grandparent].traceId # processes[root].traceId
              /\ processes[grandparent].traceId # processes[parent].traceId

\* C4: no process record that fix_case writes is an ancestor of the root at
\* depth 3 or more.
C4_NoDeepAncestorSurvives ==
    Wrote => Kept \cap DeepAncestors(processes, root) = {}

\* C5: fix_case is idempotent: run on a file that a previous run has written,
\* it counts no modification and no removal and leaves the file as it is.
C5_Idempotent ==
    (Done /\ prev_result = "true" /\ InputProcesses # <<>>) =>
        /\ modified_count = 0
        /\ removed_count = 0
        /\ result = "false"
        /\ file = input

\* C6 (as claimed): get_descendants dequeues each guid at most once.
C6_DequeuedAtMostOnce ==
    \A a, b \in DOMAIN popped : popped[a].guid = popped[b].guid => a = b

\* C6 (amended): fix_case terminates on every record set, cycles included:
\* get_descendants expands each guid at most once, every process record is
\* appended to the descendants at most once, so the loop dequeues at most
\* 1 + (number of process records) values, each of which an iteration of the
\* loop can take.
C6_TraversalTerminates ==
    /\ \A a, b \in DOMAIN popped :
          (popped[a].expanded /\ popped[b].expanded /\ popped[a].guid = popped[b].guid)
              => a = b
    /\ \A a, b \in DOMAIN descendants : descendants[a] = descendants[b] => a = b
    /\ Len(popped) + Len(queue) <= 1 + Len(processes)
    /\ (pc = "bfs" /\ queue # <<>>) => ENABLED BfsStep

\* C6 witness: a run over a cyclic parent relation (the root is its own
\* grandparent, through another record) has returned, and it dequeued one
\* guid twice
C6_CyclicRunReturned ==
    /\ Done
    /\ root # 0 /\ root \in AboveAt(processes, {root}, 2) /\ parent # root
    /\ \E a, b \in DOMAIN popped : a # b /\ popped[a].guid = popped[b].guid

\* C7: the parent/child relation among the process records fix_case writes is
\* acyclic: following parentProcessGuid from a written record never returns
\* to it.
C7_OutputAcyclic ==
    Wrote => \A k \in DOMAIN OutputProcesses :
                k \notin UNION {AboveAt(OutputProcesses, {k}, d) :
                                   d \in 1..Len(OutputProcesses)}

\* C8: exactly one process record of the output is a root (isRoot or
\* processGuid == traceId).
C8_ExactlyOneRoot ==
    Wrote => Cardinality({k \in DOMAIN OutputProcesses :
                             \/ OutputProcesses[k].isRoot
                             \/ OutputProcesses[k].processGuid
                                  = OutputProcesses[k].traceId}) = 1

\* C9: with no record of logType 'process' in the input, fix_case returns
\* False, never opens the file for writing and leaves its records unchanged.
C9_NoProcessIsNoOp ==
    (Done /\ \A k \in DOMAIN input : input[k].logType # "process") =>
        /\ result = "false"
        /\ writes = 0
        /\ file = input
        /\ non_processes = input

\* C9 witness: a run over a file and a network record, the file record with a
\* traceId that a rewrite would change, has returned
C9_NoProcessRunReturned ==
    /\ Done
    /\ Len(input) = 2
    /\ \A k \in DOMAIN input : input[k].logType # "process"
    /\ \E k \in DOMAIN input : input[k].logType = "file" /\ input[k].traceId # None
    /\ \E k \in DOMAIN input : input[k].logType = "network"

\* C10 (as claimed): if any process record has isRoot == true, the root
\* fix_case chooses has isRoot == true.
C10_FlaggedRootWins ==
    (root # 0 /\ \E i \in DOMAIN InputProcesses : InputProcesses[i].isRoot)
        => InputProcesses[root].isRoot

\* C10 (amended): isRoot == true and processGuid == traceId are one rule: the
\* root is the first process record in input order that satisfies either; a
\* flagged record does not win over an earlier unflagged record whose
\* processGuid equals its traceId.
C10_FirstCandidateWins ==
    LET P == InputProcesses
        Candidate(i) == P[i].isRoot \/ P[i].processGuid = P[i].traceId
    IN  (root # 0 /\ \E i \in DOMAIN P : Candidate(i))
            => /\ Candidate(root)
               /\ \A j \in 1..(root - 1) : ~Candidate(j)

\* C10 witness: the root is an unflagged record whose processGuid is its
\* traceId, and a later record is flagged isRoot
C10_UnflaggedRootBeforeFlagged ==
    /\ root # 0
    /\ ~InputProcesses[root].isRoot
    /\ \E i \in DOMAIN InputProcesses : i > root /\ InputProcesses[i].isRoot

----------------------------------------------------------------------------
(* The fallback root (lines 36-44) *)

\* line 37: no process record of the input is a root candidate
Fallback == root # 0 /\ FindRoot(InputProcesses) = 0

\* a record whose parent guid is absent or not in the index
IsTopLevel(procs, i) ==
    \/ procs[i].parentProcessGuid = None
    \/ procs[i].parentProcessGuid \notin DOMAIN GuidMap(procs)

TopLevel(procs) == {i \in DOMAIN procs : IsTopLevel(procs, i)}

\* C11: the root fix_case falls back to is a top-level record of the highest
\* severity among the top-level records (0 when absent), and the first
\* top-level record in input order when no record has a severity field.
C11_FallbackIsTopLevelMax ==
    Fallback =>
        LET P == InputProcesses
        IN  /\ root \in TopLevel(P)
            /\ \A j \in TopLevel(P) : Severity(P[j]) <= Severity(P[root])
            /\ (\A j \in DOMAIN P : P[j].severity = NoInt)
                   => \A j \in TopLevel(P) : root <= j

\* C12: after a run that fell back to synthesizing a root, the file holds
\* that root with isRoot == true and traceId == processGuid, also when nothing
\* else had to be changed or removed.
C12_FallbackRootPersisted ==
    (Done /\ Fallback) =>
        \E k \in DOMAIN file :
            /\ file[k].logType = "process"
            /\ file[k].processGuid = root_guid
            /\ file[k].isRoot
            /\ file[k].traceId = file[k].processGuid

----------------------------------------------------------------------------
(* The records fix_case writes (lines 120-156) *)

\* valid_guids of lines 121-127, for the run that has reached the write
KeepSet == ValidGuids(processes, root_guid, parent, grandparent, descendants)

\* C13: every process, file or registry record of the output that carries a
\* processGuid has that guid in the keep-set (root, parent, grandparent,
\* descendants): a record whose guid is outside the keep-set is dropped.
C13_OnlyKeepSetSurvives ==
    Wrote => \A k \in DOMAIN file :
                (/\ file[k].logType \in {"process", "file", "registry"}
                 /\ file[k].processGuid # None)
                    => file[k].processGuid \in KeepSet

\* C14: every alert or network record of the input that has no processGuid
\* is in the record set fix_case writes.
C14_GuidlessAlertNetworkKept ==
    Wrote => \A k \in DOMAIN non_processes :
                (/\ non_processes[k].logType \in {"alert", "network"}
                 /\ non_processes[k].processGuid = None)
                    => \E j \in DOMAIN file : file[j] = non_processes[k]

\* the logType tags of the field contract
KnownLogTypes == {"alert", "network", "process", "file", "registry"}

\* C15: a record whose logType is not a known tag passes through fix_case
\* untouched: after the run it is in the file, every field (traceId included)
\* as in the input.
C15_UnknownTypeUntouched ==
    Done => \A k \in DOMAIN input :
                input[k].logType \notin KnownLogTypes
                    => \E j \in DOMAIN file : file[j] = input[k]

\* the bucket of a record in the order of the write
ClassRank(item) ==
    CASE item.logType \in {"alert", "network"} -> 0
      [] item.logType = "file" -> 1
      [] item.logType = "registry" -> 2
      [] item.logType = "process" -> 3

\* `processes` as line 131 leaves it, before the sort of line 150
KeptProcesses == [k \in DOMAIN kept |-> processes[kept[k]]]

\* C16: whenever fix_case writes, the output is in canonical order: alert and
\* network records, then file records, then registry records, then the process
\* records in ascending processId (missing counted as 0), records of equal
\* processId in the relative order they had before.
C16_CanonicalOrder ==
    Wrote =>
        /\ \A i, j \in DOMAIN file :
              i < j => /\ ClassRank(file[i]) <= ClassRank(file[j])
                       /\ ClassRank(file[i]) = 3 => SortKey(file[i]) <= SortKey(file[j])
        /\ \A v \in {SortKey(KeptProcesses[k]) : k \in DOMAIN KeptProcesses} :
              LET HasKey(p) == SortKey(p) = v
              IN  SelectSeq(OutputProcesses, HasKey) = SelectSeq(KeptProcesses, HasKey)
        /\ Len(OutputProcesses) = Len(KeptProcesses)

\* C16 witness: fix_case has written a file that it read as a registry
\* record, a process record and an alert record, in that order
C16_ReorderedFileWritten ==
    /\ Wrote
    /\ Len(input) = 3
    /\ input[1].logType = "registry"
    /\ input[2].logType = "process"
    /\ input[3].logType = "alert"
    /\ file[1].logType = "alert"

\* the traceIds a written record may report: the root's, and the derived ones
\* of the parent and of the grandparent
ChainTraces ==
    {processes[root].traceId}
      \cup (IF parent = 0 THEN {} ELSE {ParentTrace(processes[parent])})
      \cup (IF grandparent = 0 THEN {} ELSE {GrandpaTrace(processes[grandparent])})

\* C17: every record fix_case emits that carries a traceId reports the root's
\* traceId or the derived trace id of the parent or of the grandparent; no
\* emitted record keeps another (stale) traceId.
C17_NoStaleTrace ==
    Wrote => \A k \in DOMAIN file :
                file[k].traceId # None => file[k].traceId \in ChainTraces

\* the processGuids that two or more process records of the input carry
SharedGuids ==
    {g \in {InputProcesses[i].processGuid : i \in DOMAIN InputProcesses} \ {None} :
        Cardinality({i \in DOMAIN InputProcesses : InputProcesses[i].processGuid = g}) > 1}

\* C18: when process records of the input share a processGuid, the output
\* holds exactly one record with that guid, the later occurrence
\* (last-write-wins).
C18_DuplicateGuidLastWins ==
    Wrote => \A g \in SharedGuids :
                LET hits == {k \in DOMAIN OutputProcesses :
                                OutputProcesses[k].processGuid = g}
                IN  /\ Cardinality(hits) = 1
                    /\ \A k \in hits :
                          OutputProcesses[k] = processes[GuidMap(processes)[g]]

----------------------------------------------------------------------------
(* Failures (lines 12-13 and 164-191) *)

\* C19: when the file holds a line that fails to decode, fix_case skips that
\* line and does not fail: it goes on with the records of the other lines,
\* as if the malformed line were not in the file.
C19_MalformedLineSkipped ==
    (/\ pc \in {"root", "bfs", "write", "done"}
     /\ writes = 0
     /\ \E k \in DOMAIN file : ~Decodes(file[k]))
        => /\ result # "raised"
           /\ input = SelectSeq(file, Decodes)

\* C20: a failure while fix_case processes one case file never aborts main:
\* main ends with its summary, and no existing case file is left unprocessed.
C20_FailureDoesNotAbort ==
    pc = "exit" => /\ main_pc = "summary"
                   /\ \A k \in DOMAIN remaining : ~remaining[k].exists

----------------------------------------------------------------------------
(* get_descendants and the frame of fix_case *)

\* get_descendants has returned (line 85)
Traversed == pc \in {"write", "done"} /\ root # 0

\* C23: get_descendants(root_guid) returns exactly the process records
\* reachable downward from the root through parentProcessGuid == processGuid
\* edges, the root itself excluded: no record that is not so reachable, and
\* every record that is.
C23_DescendantsAreReachable ==
    Traversed =>
        {descendants[k] : k \in DOMAIN descendants}
            = BelowClosure(processes, {root}) \ {root}

\* the records fix_case may rewrite: root, parent, grandparent, descendants
Chain == ({root, parent, grandparent} \ {0}) \cup {descendants[k] : k \in DOMAIN descendants}

\* r and s agree on every field but traceId, isRoot and isAlarm
SameButTrace(r, s) ==
    /\ r.logType = s.logType
    /\ r.processGuid = s.processGuid
    /\ r.parentProcessGuid = s.parentProcessGuid
    /\ r.processId = s.processId
    /\ r.severity = s.severity

\* C28: fix_case changes only traceId (and isRoot/isAlarm on a synthesized
\* fallback root): every record keeps processGuid, parentProcessGuid and
\* processId, a process record outside {root, parent, grandparent,
\* descendants} is never rewritten, and every record written is one of these
\* records.
C28_OnlyTraceIdChanges ==
    LET N == NonProcesses(input)
    IN  /\ \A i \in DOMAIN processes :
              /\ SameButTrace(processes[i], InputProcesses[i])
              /\ (\/ processes[i].isRoot # InputProcesses[i].isRoot
                  \/ processes[i].isAlarm # InputProcesses[i].isAlarm)
                     => (i = root /\ Fallback)
              /\ i \notin Chain => processes[i] = InputProcesses[i]
        /\ \A k \in DOMAIN non_processes :
              /\ SameButTrace(non_processes[k], N[k])
              /\ non_processes[k].isRoot = N[k].isRoot
              /\ non_processes[k].isAlarm = N[k].isAlarm
        /\ Wrote => \A k \in DOMAIN file :
                       \/ \E i \in Kept : file[k] = processes[i]
                       \/ \E j \in DOMAIN non_processes : file[k] = non_processes[j]

\* C28 witness: fix_case has written a file from which it dropped a process
\* record and in which it rewrote a traceId
C28_RewrittenAndPruned ==
    Wrote /\ removed_count > 0 /\ modified_count > 0

----------------------------------------------------------------------------
(* fix_trace_structure: the claims *)

\* The records of logType process or file as they were parsed
TracedInput == SelectSeq(input, IsTraced)

\* The rename and the retrace of lines 112-150 are over
Modified == pc \in {"ts_write", "ts_done"} /\ result # "raised" /\ root # 0

\* The records that record i names as its parent
ParentsOf(procs, i) ==
    {j \in DOMAIN procs :
        Truthy(procs[i].parentProcessGuid)
          /\ procs[j].processGuid = procs[i].parentProcessGuid}

\* C22: after fix_trace_structure the root's processGuid is the root's
\* traceId, the records whose parentProcessGuid pointed at the old root guid
\* point at the new one, no other parentProcessGuid has changed, and every
\* record has the same parent records as before the rewrite.
C22_ConnectivityPreserved ==
    Modified =>
        /\ processes[root].processGuid = original_trace_id
        /\ \A i \in DOMAIN processes :
             processes[i].parentProcessGuid =
                 IF Truthy(TracedInput[i].parentProcessGuid)
                      /\ TracedInput[i].parentProcessGuid = root_guid
                 THEN original_trace_id
                 ELSE TracedInput[i].parentProcessGuid
        /\ \A i \in DOMAIN processes :
             ParentsOf(processes, i) = ParentsOf(TracedInput, i)

\* The level of record a above record r in the parsed records: 1 for a
\* parent, 2 for a grandparent, ...; 0 when a is not an ancestor of r
AncestorLevel(procs, r, a) ==
    LET D == {d \in 1..Len(procs) : a \in AboveAt(procs, {r}, d)}
    IN  IF D = {} THEN 0 ELSE SetMin(D)

\* C26: after fix_trace_structure an ancestor of the root at level L carries
\* the root's traceId exactly when L <= 2.
C26_AncestorTraceByLevel ==
    Modified =>
        \A a \in DOMAIN processes \ {root} :
            LET L == AncestorLevel(TracedInput, root, a)
            IN  L >= 1 =>
                  ((processes[a].traceId = processes[root].traceId) <=> L <= 2)

\* fix_trace_structure has written the file
TraceWrote == pc = "ts_done" /\ writes = 1

\* C27: fix_trace_structure writes the alert record, if any, and then, for
\* each input line of logType process or file in input order, the modified
\* record parsed from that line; the number of process and file records is
\* the same before and after.
C27_WritesEachRecordOnce ==
    TraceWrote =>
        /\ file = alert_line \o processes
        /\ Len(SelectSeq(file, IsTraced)) = Len(TracedInput)

----------------------------------------------------------------------------
(* fix_case (under main) and fix_trace_structure together *)

WriteSpec == (InitMain \/ InitTrace) /\ [][NextMain \/ NextTrace]_vars

\* C21: in fix_case and in fix_trace_structure the file is written by the
\* last step of a call, after everything else has been computed: a step that
\* changes the file of the call is its first write and ends the call without
\* a failure, and a step that fails changes nothing in the file and follows
\* no write.
C21_WriteIsLast ==
    [][/\ (file' # file /\ pc # "next") =>
             /\ writes = 0 /\ writes' = 1
             /\ pc' \in {"done", "ts_done"}
             /\ result' \in {"true", "returned"}
       /\ (result' = "raised") => (file' = file /\ writes' = 0)]_vars

\* fix_trace_structure failed at line 147, after root selection and the
\* walks, and the file is as it was read
C21_FailedBeforeWrite ==
    /\ pc = "ts_done" /\ result = "raised"
    /\ DOMAIN levels # {}
    /\ writes = 0 /\ file = input

----------------------------------------------------------------------------
(* build_tree and print_tree: the claims *)

\* build_tree has returned
TreeBuilt == pc \in {"tr_print", "tr_done"} /\ nodes # <<>>

\* No guid is listed in its own bucket of the children index cm
NoSelfChild(cm) == \A g \in DOMAIN cm : \A k \in DOMAIN cm[g] : cm[g][k] # g

\* C24: in the children index that build_tree builds (all three variants),
\* no guid is listed among its own children.
C24_NoGuidIsItsOwnChild ==
    TreeBuilt => NoSelfChild(children_map) /\ NoSelfChild(BuildChildrenMining(nodes))

\* The top-level records: parent guid absent or carried by no record
TreeTop ==
    {i \in DOMAIN nodes :
        \/ ~Truthy(nodes[i].parentProcessGuid)
        \/ ~\E j \in DOMAIN nodes : nodes[j].processGuid = nodes[i].parentProcessGuid}

\* Record i has at least one child
NodeHasChild(i) ==
    /\ Truthy(nodes[i].processGuid)
    /\ \E j \in DOMAIN nodes : nodes[j].parentProcessGuid = nodes[i].processGuid

\* The rule of the priority list (a)..(e) that record i falls under: 1..5
RootRank(i) ==
    IF nodes[i].processGuid = nodes[i].traceId /\ NodeHasChild(i) THEN 1
    ELSE IF nodes[i].isRoot THEN 2
    ELSE IF nodes[i].processGuid = nodes[i].traceId THEN 3
    ELSE IF NodeHasChild(i) THEN 4
    ELSE 5

\* C25: build_tree returns the top-level record of the best rule (a)..(e),
\* the first in input order within the rule; it returns no root exactly when
\* there is no top-level record, and then generate_chain_diagram returns
\* False and writes nothing.
C25_RootByPriority ==
    TreeBuilt =>
        /\ (root_node = 0) <=> (TreeTop = {})
        /\ root_node # 0 =>
             /\ root_node \in TreeTop
             /\ \A j \in TreeTop :
                  \/ RootRank(root_node) < RootRank(j)
                  \/ RootRank(root_node) = RootRank(j) /\ root_node <= j
        /\ root_node = 0 => pc = "tr_done" /\ result = "false" /\ writes = 0

\* The root is a record with its guid as traceId and a child, chosen over an
\* earlier top-level record that is flagged isRoot
C25_ChildBearingRootBeatsFlag ==
    /\ TreeBuilt /\ root_node # 0
    /\ RootRank(root_node) = 1
    /\ \E j \in TreeTop : j < root_node /\ nodes[j].isRoot

\* generate_chain_diagram has rendered the tree and written the diagram
TreeRendered == pc = "tr_done" /\ result = "true"

\* C30: every node, the root included, appears at most once in the rendered
\* tree lines.
C30_EachNodeRenderedOnce ==
    TreeRendered =>
        \A a \in DOMAIN tree_lines : \A b \in DOMAIN tree_lines :
            a # b => tree_lines[a].node # tree_lines[b].node

----------------------------------------------------------------------------
(* fix_test_data_file: the claims *)

\* fix_test_data_file has returned
LinesDone == pc = "ln_done" /\ result # "raised"

\* ... and has rewritten the file
LinesRewritten == LinesDone /\ writes = 1

\* Which of the two functions ran: fix_network_attacker_victim's returns
\* None, fix_duplicate_ips's returns a boolean
LineFixer == IF result = "returned" THEN "network" ELSE "ips"

\* A line without its newline
Content(raw) ==
    IF raw # <<>> /\ raw[Len(raw)] = NL THEN SubSeq(raw, 1, Len(raw) - 1) ELSE raw

LinesIn == SplitLines(input)
LinesOut == SplitLines(file)

\* What line i of the input is to become
Expected(raw) ==
    IF Strip(raw) = <<>> THEN <<>>
    ELSE IF ~Loadable(Strip(raw)) THEN Strip(raw)
    ELSE Dumps(Fixed(Loads(Strip(raw)), LineFixer))

\* C29 as stated: the rewritten file has as many lines as were read; line i
\* of the output is blank when line i of the input was blank, the original
\* text verbatim when line i failed to decode, and the re-serialised record
\* of line i otherwise; the file is rewritten only when a record was modified.
C29_LinePositionsPreserved ==
    /\ LinesDone => (writes = 1 => modified_count > 0)
    /\ LinesRewritten =>
         /\ Len(LinesOut) = Len(LinesIn)
         /\ \A i \in DOMAIN LinesIn :
              IF Strip(LinesIn[i]) = <<>> THEN Strip(LinesOut[i]) = <<>>
              ELSE IF ~Loadable(Strip(LinesIn[i]))
                   THEN Content(LinesOut[i]) = Content(LinesIn[i])
                   ELSE Content(LinesOut[i]) = Expected(LinesIn[i])

\* C29, amended: fix_test_data_file keeps one entry per line read, in order:
\* the empty string for a blank line, the line stripped of surrounding
\* whitespace when it fails to decode, the re-serialised record otherwise.
\* The file is rewritten exactly when a record was modified, as the entries
\* joined by newlines without a final newline: line i of the output is
\* entry i, and the output has as many lines as were read, except that a
\* blank last line is not written.
C29_EntriesPerLine ==
    LinesDone =>
        /\ Len(lines) = Len(LinesIn)
        /\ \A i \in DOMAIN lines : lines[i] = Expected(LinesIn[i])
        /\ (writes = 1) <=> (modified_count > 0)
        /\ modified_count = 0 => file = input
        /\ modified_count > 0 =>
             /\ Len(LinesOut) = IF lines[Len(lines)] = <<>>
                                THEN Len(LinesIn) - 1 ELSE Len(LinesIn)
             /\ \A i \in DOMAIN LinesOut : Content(LinesOut[i]) = lines[i]

\* The file was rewritten and its last line, a blank one, is gone
C29_TrailingBlankDropped ==
    /\ LinesRewritten
    /\ Len(lines) > 1 /\ lines[Len(lines)] = <<>>
    /\ Len(LinesOut) = Len(LinesIn) - 1

====
